---- MODULE Spec2Model ----
(***************************************************************************)
(* A model of the KiCad parts database.                                    *)
(*                                                                         *)
(*   - the field export of the HTTP API (src/src/api/v1/main.py):          *)
(*     part_to_kicad_fields, its helper to_bool_str, the fixed-field       *)
(*     catalog FIXED_FIELDS and the module-level generator                 *)
(*     FIXED_FIELD_NAMES, which every call reads and advances;             *)
(*   - the table synthesis of kicad_db/db_definitions.py:                  *)
(*     KiCadTableDefinition, its column generation, its registry, its      *)
(*     computed variables (dict objects with identity) and its table       *)
(*     property over the shared metadata;                                  *)
(*   - build_tables;                                                       *)
(*   - the endpoints parts_for_category and part_detail of the HTTP API,   *)
(*     over the rows of src/src/definitions/parts.py;                      *)
(*   - init_db and the guard trigger of the parts table (src/src/db.py).   *)
(*                                                                         *)
(* Python values are tagged records: None, str, int, bool, list and dict.  *)
(***************************************************************************)
EXTENDS Integers, Sequences, FiniteSets, TLC

VARIABLES
    gen,      \* FIXED_FIELD_NAMES: how many names the generator has yielded
    pc,       \* position of the export call: "idle", "returned", "raised"
    part,     \* the record the current call was given (NoPart when idle)
    ret,      \* what the call returned (NoRet when idle or raised)
    classes,     \* the table definitions declared so far, by class name
    registered,  \* KiCadTableDefinition._registered_tables
    columns,     \* the last result of _generate_table_columns
    heap,        \* the dict objects of the computed variables, by identity
    held,        \* the dict objects the declaring module holds a reference to
    metadata,    \* the shared MetaData: the columns of each table, by table name
    synth,       \* the last evaluation of the table property and its outcome
    built,       \* what the last call of build_tables returned
    store,    \* the rows of the categories and parts tables
    resp,     \* the last HTTP request of the API and the response it was given
    schema,   \* the trigger function and the triggers installed on parts
    now,      \* the database clock
    sql       \* the last statement run on the database and its outcome

vars == <<gen, pc, part, ret, classes, registered, columns, heap, held, metadata, synth, built, store, resp, schema, now, sql>>

exportVars == <<gen, pc, part, ret>>
tableVars == <<classes, registered, columns, heap, held, metadata, synth, built>>
apiVars == <<store, resp>>
dbVars == <<schema, now, sql>>

-----------------------------------------------------------------------------
(* Bounds of the model                                                     *)

\* the largest number of entries of a record's extra fields (Part.fields)
MaxExtra == 2

\* the largest number of fields one class body declares
MaxAttrs == 2

\* the most dict objects the heap holds
MaxObjects == 6

\* the most evaluations in a row of one definition's table property
MaxSynth == 3

\* the latest time the database clock shows
MaxClock == 2

-----------------------------------------------------------------------------
(* Python values                                                           *)

JNone == [tag |-> "none"]
JStr(s) == [tag |-> "str", s |-> s]
JInt(n) == [tag |-> "int", n |-> n]
JBool(b) == [tag |-> "bool", b |-> b]
JList == [tag |-> "list"]
JDict(items) == [tag |-> "dict", items |-> items]

\* str.lower(), on the strings of the model
LowerTable ==
    [s \in {"Footprint", "FOOTPRINT", "Value", "VALUE", "Keywords", "Reference",
            "Manufacturer", "Voltage", "YES", "Yes", "True", "TRUE", "Y", "No",
            "False", "BaseTable", "Resistors"} |->
        CASE s = "Footprint" -> "footprint"
          [] s = "FOOTPRINT" -> "footprint"
          [] s = "Value" -> "value"
          [] s = "VALUE" -> "value"
          [] s = "Keywords" -> "keywords"
          [] s = "Reference" -> "reference"
          [] s = "Manufacturer" -> "manufacturer"
          [] s = "Voltage" -> "voltage"
          [] s = "YES" -> "yes"
          [] s = "Yes" -> "yes"
          [] s = "True" -> "true"
          [] s = "TRUE" -> "true"
          [] s = "Y" -> "y"
          [] s = "No" -> "no"
          [] s = "False" -> "false"
          [] s = "BaseTable" -> "basetable"
          [] s = "Resistors" -> "resistors"]

Lower(s) == IF s \in DOMAIN LowerTable THEN LowerTable[s] ELSE s

Digits == <<"0", "1", "2", "3", "4", "5", "6", "7", "8", "9">>

RECURSIVE NatStr(_)
NatStr(n) == IF n < 10 THEN Digits[n + 1]
             ELSE NatStr(n \div 10) \o Digits[(n % 10) + 1]

\* str(n) of an int
IntStr(n) == IF n < 0 THEN "-" \o NatStr(-n) ELSE NatStr(n)

\* str(x)
Str(x) ==
    CASE x.tag = "str" -> x.s
      [] x.tag = "int" -> IntStr(x.n)
      [] x.tag = "bool" -> (IF x.b THEN "True" ELSE "False")
      [] x.tag = "none" -> "None"
      [] x.tag = "list" -> "[]"
      [] x.tag = "dict" -> "{...}"

\* the truth value of x, as `x or y` tests it
Truthy(x) ==
    CASE x.tag = "str" -> x.s # ""
      [] x.tag = "int" -> x.n # 0
      [] x.tag = "bool" -> x.b
      [] x.tag = "none" -> FALSE
      [] x.tag = "list" -> FALSE
      [] x.tag = "dict" -> DOMAIN x.items # {}

-----------------------------------------------------------------------------
(* The fixed-field catalog                                                 *)

CommonFieldSpec(name, visible) == [name |-> name, visible |-> visible]

FIXED_FIELDS ==
    << CommonFieldSpec("footprint", FALSE),
       CommonFieldSpec("datasheet", FALSE),
       CommonFieldSpec("value", TRUE),
       CommonFieldSpec("reference", TRUE),
       CommonFieldSpec("description", FALSE),
       CommonFieldSpec("keywords", FALSE) >>

\* the name the generator FIXED_FIELD_NAMES yields as its i-th item
FixedFieldName(i) == Lower(FIXED_FIELDS[i].name)

\* `x in FIXED_FIELD_NAMES` with the generator at position g: the generator
\* is advanced until it yields x, or to its end; found tells which.
InGenerator(x, g) ==
    LET hits == {i \in (g + 1)..Len(FIXED_FIELDS) : FixedFieldName(i) = x}
    IN  IF hits = {}
        THEN [found |-> FALSE, gen |-> Len(FIXED_FIELDS)]
        ELSE [found |-> TRUE,
              gen |-> CHOOSE i \in hits : \A j \in hits : i <= j]

-----------------------------------------------------------------------------
(* part_to_kicad_fields                                                    *)

to_bool_str(x) ==
    IF x.tag = "str" /\ Lower(x.s) \in {"1", "true", "yes", "y"}
    THEN "True"
    ELSE IF x.tag \in {"bool", "int"}
         THEN Str(x)
         ELSE "False"

\* dict(value=..., visible=...)
FieldEntry(value, visible) == [value |-> value, visible |-> visible]

\* fields[k] = e
SetItem(fields, k, e) ==
    [n \in DOMAIN fields \cup {k} |-> IF n = k THEN e ELSE fields[n]]

\* v[k]: the item, or KeyError
GetItem(v, k) ==
    IF k \in DOMAIN v.items THEN [exc |-> FALSE, val |-> v.items[k]]
    ELSE [exc |-> TRUE, val |-> JNone]

\* v.get(k, default)
DictGet(v, k, default) == IF k \in DOMAIN v.items THEN v.items[k] ELSE default

\* "" if val is None else str(val)
StrOrEmpty(val) == IF val = JNone THEN "" ELSE Str(val)

\* the entry written for the catalog item `item` of the record p
FixedEntry(p, item) ==
    FieldEntry(StrOrEmpty(p[item.name]), to_bool_str(JBool(item.visible)))

\* the loop over FIXED_FIELDS: the first i catalog entries written
RECURSIVE FixedLoop(_, _)
FixedLoop(p, i) ==
    IF i = 0 THEN <<>>
    ELSE SetItem(FixedLoop(p, i - 1), FIXED_FIELDS[i].name,
                 FixedEntry(p, FIXED_FIELDS[i]))

\* IsValueMapping without its test for the "value" key
IsAnyMapping(v) == v.tag = "dict"

\* isinstance(v, dict) and "value" in v
IsValueMapping(v) == v.tag = "dict" /\ "value" \in DOMAIN v.items

\* MappingVisible with a missing visible taken as True
MappingVisibleDefaultTrue(v) == to_bool_str(DictGet(v, "visible", JBool(TRUE)))

\* the visible of a {"value": ..., "visible": ...} entry
MappingVisible(v) == to_bool_str(DictGet(v, "visible", JBool(FALSE)))

\* WrapString with the entry made visible
WrapStringVisible(v) == FieldEntry(v.s, "True")

\* the entry written for a bare string
WrapString(v) == FieldEntry(v.s, "False")

\* one iteration of the loop over part.fields, for the entry <<k, v>>, from
\* the loop state st = [fields, gen, exc]
ExtraStep(st, k, v) ==
    LET look == InGenerator(Lower(k), st.gen)
        next == [st EXCEPT !.gen = look.gen]
    IN  IF look.found
        THEN next
        ELSE IF IsValueMapping(v)
             THEN LET item == GetItem(v, "value")
                  IN  IF item.exc
                      THEN [next EXCEPT !.exc = TRUE]
                      ELSE [next EXCEPT !.fields =
                              SetItem(st.fields, k,
                                      FieldEntry(StrOrEmpty(item.val),
                                                 MappingVisible(v)))]
             ELSE IF v.tag = "str"
                  THEN [next EXCEPT !.fields = SetItem(st.fields, k, WrapString(v))]
                  ELSE next

\* (part.fields or {}).items(), as the sequence of its <<key, value>> pairs
ExtraItems(p) == IF p.fields.tag = "dict" THEN p.fields.entries ELSE <<>>

\* the loop over (part.fields or {}).items(): the first i entries handled
RECURSIVE ExtraLoop(_, _, _)
ExtraLoop(p, g, i) ==
    IF i = 0
    THEN [fields |-> FixedLoop(p, Len(FIXED_FIELDS)), gen |-> g, exc |-> FALSE]
    ELSE LET st == ExtraLoop(p, g, i - 1)
         IN  IF st.exc THEN st
             ELSE ExtraStep(st, ExtraItems(p)[i][1], ExtraItems(p)[i][2])

\* EnvelopeName without the fallback to the sequence number
EnvelopeNameNoFallback(p) == p.name.s

\* "name": part.name or str(part.sequence_number)
EnvelopeName(p) == IF Truthy(p.name) THEN p.name.s ELSE Str(p.sequence_number)

\* "id": str(part.sequence_number)
EnvelopeId(p) == Str(p.sequence_number)

\* the call part_to_kicad_fields(p) with the generator at position g:
\* what it returns (or that it raised) and where it leaves the generator
part_to_kicad_fields(p, g) ==
    LET st == ExtraLoop(p, g, Len(ExtraItems(p)))
    IN  [exc |-> st.exc,
         gen |-> st.gen,
         ret |-> [id |-> EnvelopeId(p),
                  name |-> EnvelopeName(p),
                  symbolIdStr |-> p.symbol_id.s,
                  exclude_from_bom |-> to_bool_str(p.exclude_from_bom),
                  exclude_from_board |-> to_bool_str(p.exclude_from_board),
                  exclude_from_sim |-> to_bool_str(p.exclude_from_sim),
                  fields |-> st.fields]]

-----------------------------------------------------------------------------
(* The records the export is called with                                   *)

\* the values an extra field may hold
ScalarValues == {JStr("Murata"), JInt(5), JBool(TRUE)}

MalformedValues == {JNone, JList, JDict(<<>>), JDict([visible |-> JBool(TRUE)])}

MappingValues ==
    { JDict([value |-> JStr("16V"), visible |-> JBool(TRUE)]),
      JDict([value |-> JStr("16V"), visible |-> JBool(FALSE)]),
      JDict([value |-> JStr("16V")]),
      JDict([value |-> JNone, visible |-> JStr("YES")]),
      JDict([value |-> JInt(16), visible |-> JInt(1)]),
      JDict([value |-> JStr("16V"), visible |-> JStr("no")]),
      JDict([value |-> JStr("16V"), visible |-> JInt(0)]),
      JDict([value |-> JStr("16V"), visible |-> JInt(2)]),
      JDict([value |-> JStr("16V"), visible |-> JNone]) }

ExtraValues == ScalarValues \cup MalformedValues \cup MappingValues

\* the <<name, value>> entries of the extra fields: every value under a free
\* name, and a string and a mapping under names that collide with the catalog
ExtraEntries ==
    {<<"Manufacturer", v>> : v \in ExtraValues}
    \cup ({"Voltage", "footprint", "VALUE", "keywords"}
          \X {JStr("X"), JDict([value |-> JStr("16V"), visible |-> JBool(TRUE)])})

\* a dict has one value per key
DistinctKeys(es) == \A i, j \in 1..Len(es) : es[i][1] = es[j][1] => i = j

\* Part.fields: None, or a dict of at most MaxExtra entries in insertion order
ExtraFields ==
    {JNone} \cup
    { [tag |-> "dict", entries |-> es] :
        es \in {e \in UNION {[1..n -> ExtraEntries] : n \in 0..MaxExtra} :
                  DistinctKeys(e)} }

SeqNumbers == {1, 12}

\* the record of test/test_part_to_fields.py, with sequence number n and
\* extra fields f
TestPart(n, f) ==
    [sequence_number |-> JInt(n),
     name |-> JStr("10uF_X5R_16V-00001"),
     value |-> JStr("10uF"),
     reference |-> JStr("C?"),
     footprint |-> JStr("Capacitor_SMD:C_0805_2012Metric"),
     symbol_id |-> JStr("Device:C"),
     description |-> JStr("10uF 16V X5R 0805"),
     datasheet |-> JStr("https://search.murata.co.jp/GRM21BR61C106KE15-01.pdf"),
     keywords |-> JStr("capacitor 10uF X5R 16V"),
     fields |-> f,
     exclude_from_bom |-> JBool(FALSE),
     exclude_from_board |-> JBool(FALSE),
     exclude_from_sim |-> JBool(FALSE)]

\* a record with no name, its optional attributes None, and flags set
BarePart(n, f) ==
    [sequence_number |-> JInt(n),
     name |-> JStr(""),
     value |-> JStr("10k"),
     reference |-> JStr("R?"),
     footprint |-> JStr("Resistor_SMD:R_0805_2012Metric"),
     symbol_id |-> JStr("Device:R"),
     description |-> JNone,
     datasheet |-> JNone,
     keywords |-> JNone,
     fields |-> f,
     exclude_from_bom |-> JBool(TRUE),
     exclude_from_board |-> JBool(FALSE),
     exclude_from_sim |-> JBool(TRUE)]

Parts ==
    {TestPart(n, f) : n \in SeqNumbers, f \in ExtraFields}
    \cup {BarePart(n, f) : n \in SeqNumbers, f \in ExtraFields}

\* the sequence numbers of the rows a store may hold
ApiSeqNumbers == {1, 2, 12}

\* the row with sequence number n, without its category and active flag: a
\* part with extra fields, a part with no name and no description, and a
\* second named part
BaseRow(n) ==
    CASE n = 1 -> TestPart(n, [tag |-> "dict",
                               entries |-> << <<"Manufacturer", JStr("Murata")>> >>])
      [] n = 2 -> BarePart(n, JNone)
      [] OTHER -> [TestPart(n, JNone) EXCEPT !.name = JStr("22pF_C0G_50V-00012")]

\* a row of parts: the record with its category_id and is_active columns
PartRow(p, cat, act) ==
    [a \in DOMAIN p \cup {"category_id", "is_active"} |->
        CASE a = "category_id" -> JInt(cat)
          [] a = "is_active" -> JBool(act)
          [] OTHER -> p[a]]

\* the ids the categories table may hold
CategoryIds == {{1}, {1, 2}}

\* the stores: some categories, and for each sequence number no row or a
\* row in one of the categories (category_id is a foreign key), active or not
Stores ==
    UNION { { [categories |-> cs,
               parts |-> {PartRow(BaseRow(n), f[n].cat, f[n].act) : n \in DOMAIN f}] :
                f \in UNION {[ns -> [cat : cs, act : BOOLEAN]] :
                               ns \in SUBSET ApiSeqNumbers} }
            : cs \in CategoryIds }

EmptyStore == [categories |-> {}, parts |-> {}]

\* the identifier strings of the requests
IdStrings == {"1", "2", "12", "7", "abc"}

\* int(s) for the identifier strings it accepts; it raises ValueError on
\* the others
IntOf == ("1" :> 1) @@ ("2" :> 2) @@ ("12" :> 12) @@ ("7" :> 7)

\* the names of the rows as ORDER BY name sorts them
NameOrder == <<"", "10uF_X5R_16V-00001", "22pF_C0G_50V-00012">>

NoResp == [endpoint |-> "none"]

NoColumns == [cls |-> ""]

NoTable == [name |-> "", cols |-> <<>>, built |-> FALSE]
NoSynth == [cls |-> "", count |-> 0]
NoBuilt == [tag |-> "nobuilt"]

\* the property object that the attribute table of the class is
PropertyObject == [tag |-> "property"]

NoPart == [tag |-> "nopart"]
NoRet == [tag |-> "noret"]

-----------------------------------------------------------------------------
(* Table definitions (kicad_db/db_definitions.py)                          *)

\* Column(type, primary_key=..., comment=...), as declared in a class body
PlainColumn(type, primary_key, comment) ==
    [kind |-> "Column", type |-> type, primary_key |-> primary_key,
     server_default |-> JNone, comment |-> comment]

\* KiCadField(name, computed=..., other_column_options=...); computed is a
\* format string, as the sequence of its literal pieces and {placeholders}
KiCadField(name, computed, options) ==
    [kind |-> "KiCadField", name |-> name, description |-> "",
     computed |-> computed, other_column_options |-> options]

\* KiCadProperty(which)
KiCadProperty(which) == [kind |-> "KiCadProperty", which |-> which, description |-> ""]

Lit(text) == [lit |-> text]
Var(name) == [var |-> name]

\* the computed expression of BaseTable.part_number
PartNumberExpr ==
    <<Var("prefix"), Lit(" || '-' || LPAD(sequence_number::TEXT, 5, '0')")>>

\* the Column a generated list holds
Column(name, type, primary_key, server_default, comment) ==
    [name |-> name, type |-> type, primary_key |-> primary_key,
     server_default |-> server_default, comment |-> comment]

\* the attribute names of the model, in the order dir() lists them (sorted)
AttrOrder ==
    <<"exclude_from_bom", "key", "part_number", "sequence_number", "tolerance",
      "value">>

RootClass == "KiCadTableDefinition"

\* the dict() that is KiCadTableDefinition._computed_vars
RootVarsRef == 1

\* the {} that is the default of __init_subclass__'s computed_vars
DefaultVarsRef == 2

\* a mapping the declaring module holds and passes as computed_vars
CallerVarsRef == 3

\* the class attributes of KiCadTableDefinition itself
RootAttrs ==
    [_key_column_name |-> "key",
     _symbol_column_name |-> "symbol",
     _footprint_column_name |-> "footprint",
     _computed_vars |-> RootVarsRef,
     _table_name |-> ""]

\* getattr(cls, a) for a class attribute: the class's own, else its base's
RECURSIVE ClassAttr(_, _, _)
ClassAttr(cs, c, a) ==
    IF a \in DOMAIN cs[c].own THEN cs[c].own[a]
    ELSE ClassAttr(cs, cs[c].parent, a)

\* whether cls or one of its bases declares the field attribute n
RECURSIVE HasField(_, _, _)
HasField(cs, c, n) ==
    \/ n \in DOMAIN cs[c].attrs
    \/ c # RootClass /\ HasField(cs, cs[c].parent, n)

\* getattr(cls, n) for a declared field
RECURSIVE FieldAttr(_, _, _)
FieldAttr(cs, c, n) ==
    IF n \in DOMAIN cs[c].attrs THEN cs[c].attrs[n]
    ELSE FieldAttr(cs, cs[c].parent, n)

\* get_kicad_fields: the declared fields of cls and its bases, as the
\* sequence of their names in dir() order
RECURSIVE FieldNamesUpTo(_, _, _)
FieldNamesUpTo(cs, c, i) ==
    IF i = 0 THEN <<>>
    ELSE LET rest == FieldNamesUpTo(cs, c, i - 1)
         IN  IF HasField(cs, c, AttrOrder[i]) THEN Append(rest, AttrOrder[i])
             ELSE rest

get_kicad_fields(cs, c) == FieldNamesUpTo(cs, c, Len(AttrOrder))

\* the defaults of _default_columns: name, type, comment, is_primary
DefaultSpecsKeyNotPrimary(cs, c) ==
    << <<ClassAttr(cs, c, "_key_column_name"), "String", "Unique key for the part", FALSE>>,
       <<ClassAttr(cs, c, "_symbol_column_name"), "String", "KiCad symbol reference", FALSE>>,
       <<ClassAttr(cs, c, "_footprint_column_name"), "String", "KiCad footprint reference", FALSE>> >>

DefaultSpecs(cs, c) ==
    << <<ClassAttr(cs, c, "_key_column_name"), "String", "Unique key for the part", TRUE>>,
       <<ClassAttr(cs, c, "_symbol_column_name"), "String", "KiCad symbol reference", FALSE>>,
       <<ClassAttr(cs, c, "_footprint_column_name"), "String", "KiCad footprint reference", FALSE>> >>

\* _default_columns: a column for each default whose name is no declared field
RECURSIVE DefaultColumnsUpTo(_, _, _)
DefaultColumnsUpTo(cs, c, i) ==
    IF i = 0 THEN <<>>
    ELSE LET d == DefaultSpecs(cs, c)[i]
             rest == DefaultColumnsUpTo(cs, c, i - 1)
         IN  IF HasField(cs, c, d[1]) THEN rest
             ELSE Append(rest, Column(d[1], d[2], d[4], JNone, d[3]))

default_columns(cs, c) == DefaultColumnsUpTo(cs, c, 3)

\* computed.format(**vars) that would render an unbound placeholder as nothing
RECURSIVE FormatMissingEmpty(_, _, _)
FormatMissingEmpty(tokens, vs, i) ==
    IF i = 0 THEN [exc |-> "", text |-> ""]
    ELSE LET head == FormatMissingEmpty(tokens, vs, i - 1)
             t == tokens[i]
         IN  IF "lit" \in DOMAIN t
             THEN [head EXCEPT !.text = head.text \o t.lit]
             ELSE IF t.var \in DOMAIN vs
                  THEN [head EXCEPT !.text = head.text \o Str(vs[t.var])]
                  ELSE head

\* computed.format(**vars): the text, or KeyError at an unbound placeholder
RECURSIVE Format(_, _, _)
Format(tokens, vs, i) ==
    IF i = 0 THEN [exc |-> "", text |-> ""]
    ELSE LET head == Format(tokens, vs, i - 1)
             t == tokens[i]
         IN  IF head.exc # "" THEN head
             ELSE IF "lit" \in DOMAIN t
                  THEN [head EXCEPT !.text = head.text \o t.lit]
                  ELSE IF t.var \in DOMAIN vs
                       THEN [head EXCEPT !.text = head.text \o Str(vs[t.var])]
                       ELSE [exc |-> "KeyError", text |-> t.var]

\* a deepcopy that would hand back the object itself
deepcopy_alias(h, ref) == [heap |-> h, ref |-> ref]

\* deepcopy of the dict object ref: the heap with a new object of the same
\* contents, and the new object's identity
deepcopy(h, ref) == [heap |-> Append(h, h[ref]), ref |-> Len(h) + 1]

\* _get_computed_vars: a copy of the class's bindings; the contents of the
\* copy, which _generate_table_columns drops after use
get_computed_vars(cs, c) ==
    LET copy == deepcopy(heap, ClassAttr(cs, c, "_computed_vars"))
    IN  copy.heap[copy.ref]

\* _copy_column_with_new_name
copy_column_with_new_name(column, new_name) ==
    Column(new_name, column.type, column.primary_key, column.server_default,
           column.comment)

\* the column of a KiCadField: always a String, with the options given
KiCadFieldColumn(name, field, server_default) ==
    Column(name, "String",
           IF "primary_key" \in DOMAIN field.other_column_options
           THEN field.other_column_options["primary_key"] ELSE FALSE,
           server_default, field.description)

\* a column of a KiCadProperty that would be a String for every kind
KiCadPropertyColumnString(name, field) ==
    Column(name, "String", FALSE, JNone, field.description)

\* the column of a KiCadProperty: Boolean for the three exclusion flags
KiCadPropertyColumn(name, field) ==
    Column(name,
           IF field.which \in {"exclude_from_bom", "exclude_from_board", "exclude_from_sim"}
           THEN "Boolean" ELSE "String",
           FALSE, JNone, field.description)

\* the loop of _generate_table_columns over the first i declared fields
RECURSIVE GenerateLoop(_, _, _)
GenerateLoop(cs, c, i) ==
    IF i = 0 THEN [exc |-> "", what |-> "", cols |-> default_columns(cs, c)]
    ELSE LET st == GenerateLoop(cs, c, i - 1)
             name == get_kicad_fields(cs, c)[i]
             field == FieldAttr(cs, c, name)
         IN  IF st.exc # "" THEN st
             ELSE CASE field.kind = "KiCadField" ->
                         IF field.name = ""
                         THEN [exc |-> "ValueError", what |-> name, cols |-> <<>>]
                         ELSE IF field.computed # <<>>
                              THEN LET f == Format(field.computed,
                                                   get_computed_vars(cs, c),
                                                   Len(field.computed))
                                   IN  IF f.exc # ""
                                       THEN [exc |-> f.exc, what |-> f.text, cols |-> <<>>]
                                       ELSE [st EXCEPT !.cols = Append(st.cols,
                                               KiCadFieldColumn(name, field, JStr(f.text)))]
                              ELSE [st EXCEPT !.cols = Append(st.cols,
                                     KiCadFieldColumn(name, field,
                                       IF "server_default" \in DOMAIN field.other_column_options
                                       THEN field.other_column_options["server_default"]
                                       ELSE JNone))]
                    [] field.kind = "KiCadProperty" ->
                         [st EXCEPT !.cols = Append(st.cols, KiCadPropertyColumn(name, field))]
                    [] field.kind = "Column" ->
                         [st EXCEPT !.cols = Append(st.cols,
                                                    copy_column_with_new_name(field, name))]

\* _generate_table_columns: the column list, or the exception raised
generate_table_columns(cs, c) == GenerateLoop(cs, c, Len(get_kicad_fields(cs, c)))

-----------------------------------------------------------------------------
(* The state machine of the export                                         *)

InitExport ==
    /\ gen = 0
    /\ pc = "idle"
    /\ part = NoPart
    /\ ret = NoRet

InitTables ==
    /\ classes = [c \in {RootClass} |-> [parent |-> "", own |-> RootAttrs, attrs |-> <<>>]]
    /\ registered = <<>>
    /\ columns = NoColumns
    /\ heap = << <<>>, <<>>, [prefix |-> JStr("RES")] >>
    /\ held = {CallerVarsRef}
    /\ metadata = <<>>
    /\ synth = NoSynth
    /\ built = NoBuilt

NoSchema == [function |-> FALSE, triggers |-> <<>>]
NoSql == [op |-> "none"]

InitDatabase ==
    /\ schema = NoSchema
    /\ now = 0
    /\ sql = NoSql

InitStore ==
    /\ store = EmptyStore
    /\ resp = NoResp
    /\ InitDatabase

Init == InitExport /\ InitTables /\ InitStore

\* a request handler calls part_to_kicad_fields(p)
Export(p) ==
    /\ pc = "idle"
    /\ LET r == part_to_kicad_fields(p, gen)
       IN  /\ gen' = r.gen
           /\ pc' = IF r.exc THEN "raised" ELSE "returned"
           /\ ret' = IF r.exc THEN NoRet ELSE r.ret
    /\ part' = p
    /\ UNCHANGED <<tableVars, apiVars, dbVars>>

\* the handler has sent the response; the call's frame is gone
Return ==
    /\ pc # "idle"
    /\ pc' = "idle"
    /\ part' = NoPart
    /\ ret' = NoRet
    /\ UNCHANGED <<gen, tableVars, apiVars, dbVars>>

Next ==
    \/ \E p \in Parts : Export(p)
    \/ Return

Spec == Init /\ [][Next]_vars

-----------------------------------------------------------------------------
(* The state machine of the table definitions                              *)

\* the fields a class body may declare, as <<attribute name, field>>
FieldPool ==
    { <<"sequence_number", PlainColumn("Integer", TRUE, "Sequence number of the component")>>,
      <<"part_number", KiCadField("Part Number", PartNumberExpr, <<>>)>>,
      <<"part_number", KiCadField("Part Number", <<>>, [primary_key |-> TRUE])>>,
      <<"value", KiCadProperty("value")>>,
      <<"exclude_from_bom", KiCadProperty("exclude_from_bom")>>,
      <<"key", KiCadField("Key", <<>>, <<>>)>>,
      <<"tolerance", KiCadField("", <<>>, <<>>)>> }

\* the order in which a class body states its fields, as the bodies of
\* schema/database2.py do; dir() does not keep it
DeclOrder ==
    <<"sequence_number", "part_number", "value", "exclude_from_bom", "tolerance",
      "key">>

\* a class body: at most MaxAttrs fields, one per attribute name
ClassBodies ==
    { [n \in {e[1] : e \in es} |-> (CHOOSE e \in es : e[1] = n)[2]] :
        es \in {x \in SUBSET FieldPool :
                  /\ Cardinality(x) <= MaxAttrs
                  /\ \A e1, e2 \in x : e1[1] = e2[1] => e1 = e2} }

\* the keyword arguments of a class statement; computed_vars is the dict
\* object passed, the default {} when the keyword is left out
ClassKwargs ==
    { [table |-> FALSE, key |-> "part_number", symbol |-> "", footprint |-> "",
       computed_vars |-> DefaultVarsRef],
      [table |-> TRUE, key |-> "", symbol |-> "", footprint |-> "",
       computed_vars |-> CallerVarsRef],
      [table |-> TRUE, key |-> "", symbol |-> "sym", footprint |-> "fp",
       computed_vars |-> DefaultVarsRef] }

\* the classes of the model and the base each is declared with
BaseOf == [BaseTable |-> RootClass, Resistors |-> "BaseTable"]

\* an __init_subclass__ that would set the bindings only when computed_vars
\* is given
OwnAttrsVarsIfGiven(name, kw) ==
    LET set == (IF kw.computed_vars # DefaultVarsRef THEN {"_computed_vars"} ELSE {})
               \cup (IF kw.key # "" THEN {"_key_column_name"} ELSE {})
               \cup (IF kw.symbol # "" THEN {"_symbol_column_name"} ELSE {})
               \cup (IF kw.footprint # "" THEN {"_footprint_column_name"} ELSE {})
               \cup (IF kw.table THEN {"_table_name"} ELSE {})
    IN  [a \in set |->
            CASE a = "_key_column_name" -> kw.key
              [] a = "_symbol_column_name" -> kw.symbol
              [] a = "_footprint_column_name" -> kw.footprint
              [] a = "_computed_vars" -> deepcopy(heap, kw.computed_vars).ref
              [] a = "_table_name" -> Lower(name)]

\* the class attributes __init_subclass__ sets on the new class
OwnAttrs(name, kw) ==
    LET set == {"_computed_vars"}
               \cup (IF kw.key # "" THEN {"_key_column_name"} ELSE {})
               \cup (IF kw.symbol # "" THEN {"_symbol_column_name"} ELSE {})
               \cup (IF kw.footprint # "" THEN {"_footprint_column_name"} ELSE {})
               \cup (IF kw.table THEN {"_table_name"} ELSE {})
    IN  [a \in set |->
            CASE a = "_key_column_name" -> kw.key
              [] a = "_symbol_column_name" -> kw.symbol
              [] a = "_footprint_column_name" -> kw.footprint
              [] a = "_computed_vars" -> deepcopy(heap, kw.computed_vars).ref
              [] a = "_table_name" -> Lower(name)]

\* whether the class c is in the list
InList(list, c) == \E i \in 1..Len(list) : list[i] = c

\* a _register_table that would append without looking
register_table_unchecked(list, c) == Append(list, c)

\* _register_table
register_table(list, c) == IF InList(list, c) THEN list ELSE Append(list, c)

\* a class statement: class name(base, **kw) with the given body, which runs
\* __init_subclass__
DeclareClass(name, kw, body) ==
    /\ name \notin DOMAIN classes
    /\ BaseOf[name] \in DOMAIN classes
    /\ classes' = [c \in DOMAIN classes \cup {name} |->
                     IF c = name
                     THEN [parent |-> BaseOf[name], own |-> OwnAttrs(name, kw),
                           attrs |-> body]
                     ELSE classes[c]]
    /\ heap' = deepcopy(heap, kw.computed_vars).heap
    /\ registered' = IF kw.table THEN register_table(registered, name)
                     ELSE registered
    /\ UNCHANGED <<columns, held, metadata, synth, built, exportVars, apiVars, dbVars>>

\* a call of cls._generate_table_columns()
GenerateTableColumns(c) ==
    /\ c \in DOMAIN classes
    /\ columns' = [cls |-> c, result |-> generate_table_columns(classes, c)]
    /\ UNCHANGED <<classes, registered, heap, held, metadata, synth, built, exportVars, apiVars, dbVars>>

NextTables ==
    \/ \E name \in DOMAIN BaseOf, kw \in ClassKwargs, body \in ClassBodies :
          DeclareClass(name, kw, body)
    \/ \E c \in DOMAIN classes : GenerateTableColumns(c)

SpecTables == Init /\ [][NextTables]_vars

\* the keyword arguments of a class statement that name the identity columns:
\* every choice of the key, symbol and footprint names ("" leaves the default)
NameKwargs ==
    { [table |-> TRUE, key |-> k, symbol |-> sy, footprint |-> f,
       computed_vars |-> DefaultVarsRef] :
        k \in {"", "part_number", "symbol"}, sy \in {"", "sym"}, f \in {"", "fp"} }

\* one class statement with any identity names, and column generation
NextNames ==
    \/ \E kw \in NameKwargs, body \in ClassBodies :
          DeclareClass("BaseTable", kw, body)
    \/ \E c \in DOMAIN classes : GenerateTableColumns(c)

SpecNames == Init /\ [][NextNames]_vars

\* a call of cls._register_table()
RegisterTable(c) ==
    /\ c \in DOMAIN classes
    /\ registered' = register_table(registered, c)
    /\ UNCHANGED <<classes, columns, heap, held, metadata, synth, built, exportVars, apiVars, dbVars>>

\* the class bodies of at most one attribute
RegistryBodies == {b \in ClassBodies : Cardinality(DOMAIN b) <= 1}

\* class statements and _register_table calls on any declared class
NextRegistry ==
    \/ \E name \in DOMAIN BaseOf, kw \in ClassKwargs, body \in RegistryBodies :
          DeclareClass(name, kw, body)
    \/ \E c \in DOMAIN classes : RegisterTable(c)

SpecRegistry == Init /\ [][NextRegistry]_vars

\* d[k] = v on a dict
DictSet(d, k, v) == [x \in DOMAIN d \cup {k} |-> IF x = k THEN v ELSE d[x]]

\* del d[k] on a dict, where the key may be absent
DictDel(d, k) == [x \in DOMAIN d \ {k} |-> d[x]]

\* the contents a mutation gives the dict d
Mutations(d) ==
    {DictSet(d, "prefix", JStr("CAP")), DictSet(d, "prefix", JStr("RES")),
     DictDel(d, "prefix")} \ {d}

\* the declaring module mutates a dict it holds: the mapping it passed as
\* computed_vars, or one returned by _get_computed_vars
Mutate(ref, d) ==
    /\ ref \in held
    /\ d \in Mutations(heap[ref])
    /\ heap' = [heap EXCEPT ![ref] = d]
    /\ UNCHANGED <<classes, registered, columns, held, metadata, synth, built, exportVars, apiVars, dbVars>>

\* a call of cls._get_computed_vars() whose result the caller keeps
GetComputedVars(c) ==
    /\ c \in DOMAIN classes
    /\ Len(heap) < MaxObjects
    /\ LET copy == deepcopy(heap, ClassAttr(classes, c, "_computed_vars"))
       IN  /\ heap' = copy.heap
           /\ held' = held \cup {copy.ref}
    /\ UNCHANGED <<classes, registered, columns, metadata, synth, built, exportVars, apiVars, dbVars>>

\* a call of cls._set_computed_vars(vars) with a dict the caller holds
SetComputedVars(c, ref) ==
    /\ c \in DOMAIN classes
    /\ ref \in held
    /\ Len(heap) < MaxObjects
    /\ LET copy == deepcopy(heap, ref)
       IN  /\ heap' = copy.heap
           /\ classes' = [classes EXCEPT
                            ![c].own = DictSet(@, "_computed_vars", copy.ref)]
    /\ UNCHANGED <<registered, columns, held, metadata, synth, built, exportVars, apiVars, dbVars>>

\* the keyword arguments of the class statements of the bindings'
\* specification: computed_vars left out, or the caller's mapping
VarsKwargs ==
    { [table |-> FALSE, key |-> "", symbol |-> "", footprint |-> "",
       computed_vars |-> r] : r \in {DefaultVarsRef, CallerVarsRef} }

\* class statements, and reads, writes and mutations of the bindings
NextVars ==
    \/ \E name \in DOMAIN BaseOf, kw \in VarsKwargs :
          DeclareClass(name, kw, <<>>)
    \/ \E ref \in 1..Len(heap), d \in UNION {Mutations(heap[i]) : i \in 1..Len(heap)} :
          Mutate(ref, d)
    \/ \E c \in DOMAIN classes : GetComputedVars(c)
    \/ \E c \in DOMAIN classes, ref \in 1..Len(heap) : SetComputedVars(c, ref)

SpecVars == Init /\ [][NextVars]_vars

-----------------------------------------------------------------------------
(* The table property and the shared metadata                              *)

\* a column given to a table: it replaces the table's column of that name,
\* or is appended
TableColumn(cols, col) ==
    IF \E i \in 1..Len(cols) : cols[i].name = col.name
    THEN [i \in 1..Len(cols) |-> IF cols[i].name = col.name THEN col ELSE cols[i]]
    ELSE Append(cols, col)

\* the columns of a table after the first i of the given columns went in
RECURSIVE TableColumnsUpTo(_, _, _)
TableColumnsUpTo(old, cols, i) ==
    IF i = 0 THEN old
    ELSE TableColumn(TableColumnsUpTo(old, cols, i - 1), cols[i])

\* a Table(name, metadata, *cols) that would not extend an existing table:
\* it raises when the metadata holds the name
TableNoExtend(md, name, cols) ==
    IF name \in DOMAIN md
    THEN [exc |-> "InvalidRequestError", metadata |-> md, table |-> NoTable]
    ELSE [exc |-> "",
          metadata |-> DictSet(md, name, TableColumnsUpTo(<<>>, cols, Len(cols))),
          table |-> [name |-> name, cols |-> TableColumnsUpTo(<<>>, cols, Len(cols)),
                     built |-> TRUE]]

\* Table(name, metadata, *cols, extend_existing=True): the table of that name
\* in the metadata, made if there is none, with the columns applied to it
Table(md, name, cols) ==
    LET old == IF name \in DOMAIN md THEN md[name] ELSE <<>>
        new == TableColumnsUpTo(old, cols, Len(cols))
    IN  [exc |-> "",
         metadata |-> DictSet(md, name, new),
         table |-> [name |-> name, cols |-> new, built |-> TRUE]]

\* a table property that would make the table first and fill it afterwards
table_then_columns(cs, md, c) ==
    LET g == generate_table_columns(cs, c)
        t == Table(md, ClassAttr(cs, c, "_table_name"), g.cols)
    IN  [exc |-> g.exc, what |-> g.what, metadata |-> t.metadata,
         table |-> IF g.exc # "" THEN NoTable ELSE t.table]

\* the table property of an instance of c: the columns are generated before
\* Table is called, so their exception leaves the metadata alone
table(cs, md, c) ==
    LET g == generate_table_columns(cs, c)
    IN  IF g.exc # ""
        THEN [exc |-> g.exc, what |-> g.what, metadata |-> md, table |-> NoTable]
        ELSE LET t == Table(md, ClassAttr(cs, c, "_table_name"), g.cols)
             IN  [exc |-> t.exc, what |-> "", metadata |-> t.metadata,
                  table |-> t.table]

\* an evaluation of c().table; count is how many times in a row c's was
Synthesize(c) ==
    /\ c \in DOMAIN classes
    /\ synth.cls = c => synth.count < MaxSynth
    /\ LET r == table(classes, metadata, c)
       IN  /\ metadata' = r.metadata
           /\ synth' = [cls |-> c,
                        count |-> IF synth.cls = c THEN synth.count + 1 ELSE 1,
                        exc |-> r.exc, what |-> r.what, table |-> r.table]
    /\ UNCHANGED <<classes, registered, columns, heap, held, built, exportVars, apiVars, dbVars>>

\* class statements, and the table property of the definitions declared
\* with table=True
NextSynth ==
    \/ \E name \in DOMAIN BaseOf, kw \in ClassKwargs, body \in RegistryBodies :
          DeclareClass(name, kw, body)
    \/ \E c \in {d \in DOMAIN classes : d \in DOMAIN BaseOf /\ "_table_name" \in DOMAIN classes[d].own} :
          Synthesize(c)

SpecSynth == Init /\ [][NextSynth]_vars

-----------------------------------------------------------------------------
(* build_tables                                                            *)

\* _get_registered_tables: a copy of the registry
get_registered_tables(list) == [i \in 1..Len(list) |-> list[i]]

\* c.table for a class c: table is a property, which is evaluated only for
\* an instance; on the class the attribute is the property object itself, no
\* columns are generated and Table is not called
class_table(cs, md, c) ==
    [exc |-> "", what |-> "", metadata |-> md, table |-> PropertyObject]

\* the list comprehension of build_tables over the first i registered
\* classes: the metadata and the list so far
RECURSIVE BuildUpTo(_, _, _, _)
BuildUpTo(cs, md, list, i) ==
    IF i = 0 THEN [metadata |-> md, ret |-> <<>>]
    ELSE LET st == BuildUpTo(cs, md, list, i - 1)
             t == class_table(cs, st.metadata, list[i])
         IN  [metadata |-> t.metadata, ret |-> Append(st.ret, t.table)]

build_tables(cs, md, list) ==
    BuildUpTo(cs, md, get_registered_tables(list), Len(list))

\* a call of build_tables(); of is the registry it went through
BuildTables ==
    /\ LET r == build_tables(classes, metadata, registered)
       IN  /\ metadata' = r.metadata
           /\ built' = [of |-> get_registered_tables(registered), ret |-> r.ret]
    /\ UNCHANGED <<classes, registered, columns, heap, held, synth, exportVars, apiVars, dbVars>>

\* class statements and calls of build_tables
NextBuild ==
    \/ \E name \in DOMAIN BaseOf, kw \in ClassKwargs, body \in RegistryBodies :
          DeclareClass(name, kw, body)
    \/ BuildTables

SpecBuild == Init /\ [][NextBuild]_vars

\* the keyword arguments of the class statements of the inheritance's
\* specification: each name given or left out, computed_vars given or left out
InheritKwargs ==
    { [table |-> FALSE, key |-> k, symbol |-> sy, footprint |-> f,
       computed_vars |-> r] :
        k \in {"", "part_number"}, sy \in {"", "sym"}, f \in {"", "fp"},
        r \in {DefaultVarsRef, CallerVarsRef} }

\* the class bodies of that specification: empty, or the part number alone
InheritBodies == {b \in ClassBodies : DOMAIN b \subseteq {"part_number"}}

\* class statements of a definition and of its subclass, and column generation
NextInherit ==
    \/ \E name \in DOMAIN BaseOf, kw \in InheritKwargs, body \in InheritBodies :
          DeclareClass(name, kw, body)
    \/ \E c \in DOMAIN classes : GenerateTableColumns(c)

SpecInherit == Init /\ [][NextInherit]_vars

-----------------------------------------------------------------------------
(* The endpoints of the HTTP API (src/src/api/v1/main.py)                  *)

\* the response to the request of an endpoint for an identifier
Response(endpoint, id, status, body) ==
    [endpoint |-> endpoint, id |-> id, status |-> status, body |-> body]

\* ORDER BY name over a set of rows, through the first i names
RECURSIVE OrderByNameUpTo(_, _)
OrderByNameUpTo(rows, i) ==
    IF i = 0 THEN <<>>
    ELSE LET rest == OrderByNameUpTo(rows, i - 1)
             named == {p \in rows : p.name = JStr(NameOrder[i])}
         IN  IF named = {} THEN rest
             ELSE Append(rest, CHOOSE p \in named : TRUE)

OrderByName(rows) == OrderByNameUpTo(rows, Len(NameOrder))

\* the object parts_for_category builds from a result row
ListingEntry(r) ==
    [id |-> JStr(Str(r.sequence_number)),
     name |-> IF Truthy(r.name) THEN r.name ELSE r.sequence_number,
     description |-> IF Truthy(r.description) THEN r.description ELSE JStr("")]

\* the rows parts_for_category selects for the category number
SelectCategory(st, cat) ==
    OrderByName({p \in st.parts : p.category_id = JInt(cat)})

\* GET /parts/category/{cid}.json
PartsForCategory(cid) ==
    /\ resp' =
         IF cid \notin DOMAIN IntOf
         THEN Response("parts_for_category", cid, 500, JStr("ValueError"))
         ELSE LET rows == SelectCategory(store, IntOf[cid])
              IN  Response("parts_for_category", cid, 200,
                           [i \in 1..Len(rows) |-> ListingEntry(rows[i])])
    /\ UNCHANGED <<store, exportVars, tableVars, dbVars>>

\* the rows part_detail selects for the sequence number
SelectPart(st, n) == {p \in st.parts : p.sequence_number = JInt(n)}

\* GET /parts/{pid}.json
PartDetail(pid) ==
    /\ IF pid \notin DOMAIN IntOf
       THEN /\ resp' = Response("part_detail", pid, 500, JStr("ValueError"))
            /\ gen' = gen
       ELSE LET rows == SelectPart(store, IntOf[pid])
            IN  IF rows = {}
                THEN /\ resp' = Response("part_detail", pid, 404,
                                         [detail |-> JStr("Unknown part")])
                     /\ gen' = gen
                ELSE LET r == part_to_kicad_fields(CHOOSE p \in rows : TRUE, gen)
                     IN  /\ resp' = IF r.exc
                                    THEN Response("part_detail", pid, 500, JStr("TypeError"))
                                    ELSE Response("part_detail", pid, 200, r.ret)
                         /\ gen' = r.gen
    /\ UNCHANGED <<store, pc, part, ret, tableVars, dbVars>>

InitApi ==
    /\ InitExport
    /\ InitTables
    /\ InitDatabase
    /\ store \in Stores
    /\ resp = NoResp

NextApi ==
    \/ \E cid \in IdStrings : PartsForCategory(cid)
    \/ \E pid \in IdStrings : PartDetail(pid)

SpecApi == InitApi /\ [][NextApi]_vars

-----------------------------------------------------------------------------
(* The guard trigger of the parts table (src/src/db.py)                    *)

TriggerName == "trg_parts_guard_touch"

\* a trigger function that would only touch updated_at
parts_touch_only(op, old, new, t) ==
    [exc |-> "", row |-> [new EXCEPT !.updated_at = JInt(t)]]

\* parts_guard_and_touch: it raises when an UPDATE gives the row another
\* name, and otherwise returns NEW with updated_at set to now()
parts_guard_and_touch(op, old, new, t) ==
    IF op = "UPDATE" /\ new.name # old.name
    THEN [exc |-> "RaiseException", row |-> old]
    ELSE [exc |-> "", row |-> [new EXCEPT !.updated_at = JInt(t)]]

\* CREATE OR REPLACE FUNCTION parts_guard_and_touch()
create_or_replace_function(sch) == [sch EXCEPT !.function = TRUE]

\* DROP TRIGGER IF EXISTS name ON parts
drop_trigger_if_exists(sch, name) ==
    [sch EXCEPT !.triggers = SelectSeq(@, LAMBDA t : t # name)]

\* CREATE TRIGGER name BEFORE UPDATE ON parts FOR EACH ROW EXECUTE FUNCTION
\* parts_guard_and_touch(): an error when the table has a trigger of that name
create_trigger(sch, name) ==
    IF \E i \in 1..Len(sch.triggers) : sch.triggers[i] = name
    THEN [exc |-> "DuplicateObject", schema |-> sch]
    ELSE IF ~sch.function
         THEN [exc |-> "UndefinedFunction", schema |-> sch]
         ELSE [exc |-> "", schema |-> [sch EXCEPT !.triggers = Append(@, name)]]

\* the statements of GUARD_TOUCH_SQLS, in order
GUARD_TOUCH_SQLS(sch) ==
    create_trigger(drop_trigger_if_exists(create_or_replace_function(sch), TriggerName),
                   TriggerName)

\* init_db(install_triggers): one transaction; create_all makes the tables,
\* and an error of a statement rolls everything back
init_db(install_triggers) ==
    /\ LET r == IF install_triggers THEN GUARD_TOUCH_SQLS(schema)
                ELSE [exc |-> "", schema |-> schema]
       IN  /\ schema' = IF r.exc = "" THEN r.schema ELSE schema
           /\ sql' = [op |-> "init_db", install_triggers |-> install_triggers,
                      exc |-> r.exc]
    /\ UNCHANGED <<now, store, resp, exportVars, tableVars>>

\* the BEFORE UPDATE row triggers of parts, fired in order on OLD and NEW,
\* through the first i of them
RECURSIVE FireUpTo(_, _, _, _, _)
FireUpTo(trigs, old, new, t, i) ==
    IF i = 0 THEN [exc |-> "", row |-> new]
    ELSE LET st == FireUpTo(trigs, old, new, t, i - 1)
         IN  IF st.exc # "" THEN st
             ELSE parts_guard_and_touch("UPDATE", old, st.row, t)

\* the sequence numbers, names and values of the rows of this specification
GuardSeqNumbers == {1, 2}
GuardNames == {NameOrder[1], NameOrder[2]}
GuardValues == {"10uF", "10k"}

\* a row of parts with its timestamps, both now() at insertion
TimedRow(r, t) ==
    [a \in DOMAIN r \cup {"created_at", "updated_at"} |->
        IF a \in {"created_at", "updated_at"} THEN JInt(t) ELSE r[a]]

\* INSERT INTO parts: a new row of category 1, as the seed inserts them
InsertPart(n) ==
    /\ \A p \in store.parts : p.sequence_number # JInt(n)
    /\ store' = [store EXCEPT !.parts = @ \cup {TimedRow(PartRow(BaseRow(n), 1, TRUE), now)}]
    /\ sql' = [op |-> "insert", seq |-> n, exc |-> ""]
    /\ UNCHANGED <<schema, now, resp, exportVars, tableVars>>

\* UPDATE parts SET name = ..., value = ... WHERE sequence_number = n
UpdatePart(n, name, value) ==
    /\ \E old \in store.parts :
          /\ old.sequence_number = JInt(n)
          /\ LET new == [old EXCEPT !.name = JStr(name), !.value = JStr(value)]
                 r == FireUpTo(schema.triggers, old, new, now, Len(schema.triggers))
             IN  /\ store' = IF r.exc # "" THEN store
                             ELSE [store EXCEPT !.parts = (@ \ {old}) \cup {r.row}]
                 /\ sql' = [op |-> "update", seq |-> n, exc |-> r.exc,
                            old |-> old, set |-> new, at |-> now,
                            guarded |-> schema.triggers # <<>>]
    /\ UNCHANGED <<schema, now, resp, exportVars, tableVars>>

\* time passes
Tick ==
    /\ now < MaxClock
    /\ now' = now + 1
    /\ UNCHANGED <<schema, sql, store, resp, exportVars, tableVars>>

\* the tables after create_all and the seed's category
SeededStore == [categories |-> {1}, parts |-> {}]

InitGuard ==
    /\ InitExport
    /\ InitTables
    /\ InitDatabase
    /\ store = SeededStore
    /\ resp = NoResp

NextGuard ==
    \/ \E install_triggers \in BOOLEAN : init_db(install_triggers)
    \/ \E n \in GuardSeqNumbers : InsertPart(n)
    \/ \E n \in GuardSeqNumbers, name \in GuardNames, value \in GuardValues :
          UpdatePart(n, name, value)
    \/ Tick

SpecGuard == InitGuard /\ [][NextGuard]_vars

-----------------------------------------------------------------------------
(* Properties of the table definitions                                     *)

\* a column list has been produced
Generated == columns # NoColumns /\ columns.result.exc = ""

\* the positions of the primary-key columns of the produced list
PrimaryKeyColumns ==
    {i \in 1..Len(columns.result.cols) : columns.result.cols[i].primary_key}

\* the configured key-column name of the class the list was produced for
KeyName == ClassAttr(classes, columns.cls, "_key_column_name")

\* the declared fields of that class that are themselves marked primary key
DeclaredPrimaryKeys ==
    {n \in {AttrOrder[i] : i \in 1..Len(AttrOrder)} :
        /\ HasField(classes, columns.cls, n)
        /\ LET f == FieldAttr(classes, columns.cls, n)
           IN  \/ f.kind = "Column" /\ f.primary_key
               \/ /\ f.kind = "KiCadField"
                  /\ "primary_key" \in DOMAIN f.other_column_options
                  /\ f.other_column_options["primary_key"]}

IdentityNames ==
    {ClassAttr(classes, columns.cls, a) :
        a \in {"_key_column_name", "_symbol_column_name", "_footprint_column_name"}}

\* the positions of the columns of the produced list named n
ColumnsNamed(n) ==
    {i \in 1..Len(columns.result.cols) : columns.result.cols[i].name = n}

\* C11: each of the configured key, symbol and footprint names occurs exactly
\* once as a column name of a produced list, whatever the names are: it is
\* synthesized when no declared field uses it, and is the declared field's
\* column otherwise.
C11_IdentityOnce ==
    Generated => \A n \in IdentityNames : Cardinality(ColumnsNamed(n)) = 1

\* a column generation has been called, whatever its outcome
Called == columns # NoColumns

\* the names of the fields the class declares or inherits
DeclaredNames ==
    {AttrOrder[i] : i \in {j \in 1..Len(AttrOrder) :
                              HasField(classes, columns.cls, AttrOrder[j])}}

\* the declared named fields of the class that carry a computed expression
ComputedFields ==
    {n \in DeclaredNames :
        /\ FieldAttr(classes, columns.cls, n).kind = "KiCadField"
        /\ FieldAttr(classes, columns.cls, n).computed # <<>>}

\* the {placeholders} of the computed expressions with no binding in the class
UnboundPlaceholders ==
    UNION {{FieldAttr(classes, columns.cls, n).computed[i].var :
               i \in {j \in 1..Len(FieldAttr(classes, columns.cls, n).computed) :
                        "var" \in DOMAIN FieldAttr(classes, columns.cls, n).computed[j]}}
           : n \in ComputedFields}
      \ DOMAIN get_computed_vars(classes, columns.cls)

\* whether the class has a named field with an empty name
HasNamelessField ==
    \E n \in DeclaredNames :
        /\ FieldAttr(classes, columns.cls, n).kind = "KiCadField"
        /\ FieldAttr(classes, columns.cls, n).name = ""

\* the part-number expression with prefix bound to 'RES', written out
PartNumberDefaultRES == "RES || '-' || LPAD(sequence_number::TEXT, 5, '0')"

\* C12: generating the columns of a class with a computed named field
\* succeeds when every placeholder is bound, and the column's server default is
\* the substituted text; when a placeholder is unbound the generation raises an
\* error that names that variable and no column list is produced.
C12_ComputedDefault ==
    (Called /\ ComputedFields # {}) =>
        LET r == columns.result
        IN  /\ (UnboundPlaceholders = {} /\ ~HasNamelessField) =>
                  /\ r.exc = ""
                  /\ \A n \in ComputedFields :
                       \E i \in 1..Len(r.cols) :
                          /\ r.cols[i].name = n
                          /\ r.cols[i].server_default = JStr(PartNumberDefaultRES)
            /\ UnboundPlaceholders # {} =>
                  /\ r.exc # ""
                  /\ r.cols = <<>>
                  /\ ~HasNamelessField =>
                        (r.exc = "KeyError" /\ r.what \in UnboundPlaceholders)
            /\ r.exc = "KeyError" => r.what \in UnboundPlaceholders

\* a class with a computed field and prefix bound has been given its columns
C12_Witness ==
    /\ Called
    /\ ComputedFields # {}
    /\ UnboundPlaceholders = {}
    /\ columns.result.exc = ""

\* a class with a computed field and no binding has failed with the KeyError
C12_WitnessUnbound ==
    /\ Called
    /\ ComputedFields # {}
    /\ columns.result.exc = "KeyError"
    /\ columns.result.what = "prefix"

\* whether the class was declared with table=True
DeclaredTable(cs, c) == c # RootClass /\ "_table_name" \in DOMAIN cs[c].own

\* no class is in the registry twice
RegisteredOnce ==
    \A i, j \in 1..Len(registered) : registered[i] = registered[j] => i = j

\* every class declared with table=True is in the registry
TablesRegistered ==
    \A c \in DOMAIN classes : DeclaredTable(classes, c) => InList(registered, c)

\* C15 as stated: the registry holds each class declared with table=True
\* exactly once and no class declared without table=True, after any class
\* statements and _register_table calls.
C15_OnlyTableTrue ==
    /\ RegisteredOnce
    /\ TablesRegistered
    /\ \A i \in 1..Len(registered) : DeclaredTable(classes, registered[i])

\* a step leaves the registry alone or appends one class to it: a class it
\* did not hold, which is either declared in this step with table=True or was
\* declared before and is registered by a call
RegistryStep ==
    \/ registered' = registered
    \/ \E c \in DOMAIN classes' :
          /\ ~InList(registered, c)
          /\ registered' = Append(registered, c)
          /\ c \notin DOMAIN classes => DeclaredTable(classes', c)

\* C15, amended: the registry holds every class declared with table=True, and
\* every class exactly once, in the order of first registration; a class
\* declared without table=True enters it only through a _register_table call on
\* that class; registering a registered class changes nothing.
C15_Registry ==
    /\ [](RegisteredOnce /\ TablesRegistered)
    /\ [][RegistryStep]_vars

\* the registry holds two classes, one of them declared without table=True
C15_Witness ==
    /\ Len(registered) >= 2
    /\ \E i \in 1..Len(registered) : DeclaredTable(classes, registered[i])
    /\ \E i \in 1..Len(registered) : ~DeclaredTable(classes, registered[i])

\* what c._get_computed_vars() returns in the state of classes cs and heap h
ComputedVarsOf(cs, h, c) == h[ClassAttr(cs, c, "_computed_vars")]

\* C16: what B._get_computed_vars returns changes in no step that mutates a
\* mapping passed as computed_vars, mutates a mapping returned by
\* _get_computed_vars, or sets the bindings of another definition A: it
\* changes only when B alone is bound to a fresh copy, by B._set_computed_vars.
C16_Isolated ==
    [][\A b \in DOMAIN classes :
          ComputedVarsOf(classes', heap', b) # ComputedVarsOf(classes, heap, b) =>
              /\ ClassAttr(classes', b, "_computed_vars") \notin 1..Len(heap)
              /\ \A a \in DOMAIN classes \ {b} : classes'[a] = classes[a]]_vars

\* two definitions were given the caller's mapping, the mapping was mutated
\* afterwards, a mapping returned by a definition was mutated too, and both
\* definitions still return the bindings they were declared with
C16_Witness ==
    /\ {"BaseTable", "Resistors"} \subseteq DOMAIN classes
    /\ heap[CallerVarsRef] # [prefix |-> JStr("RES")]
    /\ \E r \in held \ {CallerVarsRef} : heap[r] # [prefix |-> JStr("RES")]
    /\ \A c \in {"BaseTable", "Resistors"} :
          ComputedVarsOf(classes, heap, c) = [prefix |-> JStr("RES")]

\* the table property has been evaluated
Synthesized == synth # NoSynth

\* the schema the definition c describes: its table name and column list
SchemaOf(c) ==
    [name |-> ClassAttr(classes, c, "_table_name"),
     cols |-> generate_table_columns(classes, c).cols,
     built |-> TRUE]

NamelessFieldsOf(c) ==
    {n \in {AttrOrder[i] : i \in 1..Len(AttrOrder)} :
        /\ HasField(classes, c, n)
        /\ FieldAttr(classes, c, n).kind = "KiCadField"
        /\ FieldAttr(classes, c, n).name = ""}

\* C19: the table property of a definition that has a named field with an
\* empty name fails with a definition error: it returns no table and no column
\* list, and the shared metadata holds no table for the definition.
C19_NamelessStops ==
    (Synthesized /\ NamelessFieldsOf(synth.cls) # {}) =>
        /\ \/ synth.exc = "ValueError" /\ synth.what \in NamelessFieldsOf(synth.cls)
           \/ synth.exc = "KeyError"
        /\ synth.table = NoTable
        /\ ClassAttr(classes, synth.cls, "_table_name") \notin DOMAIN metadata

\* a definition with a nameless field has been synthesized and has raised
\* the ValueError, after another definition was given its table
C19_Witness ==
    /\ Synthesized
    /\ NamelessFieldsOf(synth.cls) # {}
    /\ synth.exc = "ValueError"
    /\ metadata # <<>>

\* the place of the attribute name n in the order of declaration
DeclIndex(n) == CHOOSE i \in 1..Len(DeclOrder) : DeclOrder[i] = n

\* the place of the column named n in the produced list
ColumnIndex(n) == CHOOSE i \in 1..Len(columns.result.cols) : columns.result.cols[i].name = n

\* the number of identity columns synthesized at the head of the produced list
SynthesizedCount == Len(default_columns(classes, columns.cls))

\* C18: in a produced list the columns of the fields a class body declares
\* come after the synthesized identity columns, in the order in which the body
\* declares them.
C18_DeclarationOrder ==
    Generated =>
        \A a, b \in DOMAIN classes[columns.cls].attrs :
            /\ ColumnIndex(a) > SynthesizedCount
            /\ DeclIndex(a) < DeclIndex(b) => ColumnIndex(a) < ColumnIndex(b)

\* the kinds of property that are flags
ExclusionKinds == {"exclude_from_bom", "exclude_from_board", "exclude_from_sim"}

\* C20: the type of a declared field's column follows from the field's variant
\* alone: a property gives a Boolean column exactly when its kind is one of the
\* three exclusion flags and a String column otherwise, a named field gives a
\* String column, and a plain column keeps its type under the attribute's name.
C20_TypeByVariant ==
    Generated =>
        \A n \in DeclaredNames :
            LET field == FieldAttr(classes, columns.cls, n)
                col == columns.result.cols[ColumnIndex(n)]
            IN  /\ ColumnsNamed(n) # {}
                /\ field.kind = "KiCadProperty" =>
                      col.type = (IF field.which \in ExclusionKinds
                                  THEN "Boolean" ELSE "String")
                /\ field.kind = "KiCadField" => col.type = "String"
                /\ field.kind = "Column" => col.type = field.type

\* a list was produced for a class with a flag property, a plain column that
\* is no String, and a named field
C20_Witness ==
    /\ Generated
    /\ \E a, b, c \in DeclaredNames :
          /\ FieldAttr(classes, columns.cls, a).kind = "KiCadProperty"
          /\ FieldAttr(classes, columns.cls, a).which \in ExclusionKinds
          /\ FieldAttr(classes, columns.cls, b).kind = "Column"
          /\ FieldAttr(classes, columns.cls, b).type # "String"
          /\ FieldAttr(classes, columns.cls, c).kind = "KiCadField"

\* C21: build_tables returns one synthesized table schema for each registered
\* definition, in registration order, named by the definition's lower-cased
\* name, and the shared metadata then holds a table for each of them.
C21_Materialized ==
    built # NoBuilt =>
        /\ Len(built.ret) = Len(built.of)
        /\ \A i \in 1..Len(built.of) :
              /\ built.ret[i] = SchemaOf(built.of[i])
              /\ Lower(built.of[i]) \in DOMAIN metadata

\* the name attributes a class statement may set or leave to the base
NameAttrs ==
    [key |-> "_key_column_name", symbol |-> "_symbol_column_name",
     footprint |-> "_footprint_column_name"]

\* C22: a class statement that leaves out computed_vars gives the new
\* definition an empty mapping, whatever its base is bound to, and a key, symbol
\* or footprint name the statement leaves out is the base's.
C22_Inheritance ==
    [][\A name \in DOMAIN classes' \ DOMAIN classes, kw \in InheritKwargs :
          DeclareClass(name, kw, classes'[name].attrs) =>
              /\ kw.computed_vars = DefaultVarsRef =>
                    ComputedVarsOf(classes', heap', name) = <<>>
              /\ \A k \in DOMAIN NameAttrs :
                    kw[k] = "" =>
                        ClassAttr(classes', name, NameAttrs[k])
                            = ClassAttr(classes, BaseOf[name], NameAttrs[k])]_vars

\* a subclass declared with no keyword at all under a base that was given
\* bindings and names: its mapping is empty, its names are the base's, and a
\* column list was produced for it
C22_Witness ==
    /\ "Resistors" \in DOMAIN classes
    /\ ComputedVarsOf(classes, heap, "BaseTable") = [prefix |-> JStr("RES")]
    /\ ComputedVarsOf(classes, heap, "Resistors") = <<>>
    /\ DOMAIN classes["Resistors"].own = {"_computed_vars"}
    /\ ClassAttr(classes, "Resistors", "_key_column_name") = "part_number"
    /\ ClassAttr(classes, "Resistors", "_symbol_column_name") = "sym"
    /\ Generated
    /\ columns.cls = "Resistors"

-----------------------------------------------------------------------------
(* Properties of the export                                                *)

\* the names of the fixed catalog
FixedNames == {FIXED_FIELDS[i].name : i \in 1..Len(FIXED_FIELDS)}

\* the entries <<name, value>> of the extra fields of the current call
CallEntries == {ExtraItems(part)[i] : i \in 1..Len(ExtraItems(part))}

\* the entry a fixed name must carry: the record's own attribute as a string
\* ("" for None) and the catalog's visibility
CatalogEntry(n) ==
    [value |-> IF part[n].tag = "none" THEN "" ELSE part[n].s,
     visible |-> IF n \in {"value", "reference"} THEN "True" ELSE "False"]

\* C1: an extra field whose name equals a fixed-catalog name ignoring case is
\* dropped: no entry of the returned fields map carries its value, and the
\* fixed entry keeps the record's attribute and the catalog's visibility.
C1_CollidingDropped ==
    pc = "returned" =>
        \A e \in CallEntries :
            Lower(e[1]) \in FixedNames =>
                /\ (e[1] \notin FixedNames => e[1] \notin DOMAIN ret.fields)
                /\ ret.fields[Lower(e[1])] = CatalogEntry(Lower(e[1]))

\* C2: the map returned for a record does not depend on the calls made
\* earlier in the process: it is what a first call in a fresh process returns.
C2_HistoryIndependent ==
    pc = "returned" => ret = part_to_kicad_fields(part, 0).ret

\* C3: every visible entry and every exclusion flag of a returned map is
\* "True" or "False".
C3_BoolStrings ==
    pc = "returned" =>
        /\ \A n \in DOMAIN ret.fields : ret.fields[n].visible \in {"True", "False"}
        /\ ret.exclude_from_bom \in {"True", "False"}
        /\ ret.exclude_from_board \in {"True", "False"}
        /\ ret.exclude_from_sim \in {"True", "False"}

\* what C4 says to_bool_str returns for a string, for 1, for 0 and for None
\* (it says nothing of the other values)
StatedBoolStr(x) ==
    CASE x.tag = "str" ->
            {IF Lower(x.s) \in {"1", "true", "yes", "y"} THEN "True" ELSE "False"}
      [] x.tag = "int" /\ x.n = 1 -> {"True"}
      [] x.tag = "int" /\ x.n = 0 -> {"False"}
      [] x.tag = "none" -> {"False"}
      [] OTHER -> {"True", "False", Str(x)}

\* C4: to_bool_str maps a string to "True" exactly when its lowercased form
\* is "1", "true", "yes" or "y" and to "False" otherwise, 1 to "True", 0 to
\* "False" and None to "False"; seen on the visible of every free-named
\* mapping entry that has a visible key.
C4_BoolStrTable ==
    pc = "returned" =>
        \A e \in CallEntries :
            (/\ Lower(e[1]) \notin FixedNames
             /\ e[2].tag = "dict"
             /\ {"value", "visible"} \subseteq DOMAIN e[2].items)
            => ret.fields[e[1]].visible \in StatedBoolStr(e[2].items["visible"])

\* C5: each of the six fixed names is a key of the returned fields map, with
\* the record's attribute as its value ("" for None) and the catalog default
\* as its visible, whatever the extra fields hold.
C5_FixedAlwaysPresent ==
    pc = "returned" =>
        \A n \in FixedNames :
            n \in DOMAIN ret.fields /\ ret.fields[n] = CatalogEntry(n)

\* C6 as stated: a free-named extra field holding a bare scalar (a string, a
\* number or a boolean) is exported with the scalar's string form, not visible.
C6_ScalarWrapped ==
    pc = "returned" =>
        \A e \in CallEntries :
            (Lower(e[1]) \notin FixedNames /\ e[2].tag \in {"str", "int", "bool"})
            => /\ e[1] \in DOMAIN ret.fields
               /\ ret.fields[e[1]] = [value |-> Str(e[2]), visible |-> "False"]

\* C6 as amended: a free-named extra field holding a bare string is exported
\* with that string, not visible; a bare number or boolean adds no key.
C6_StringWrapped ==
    pc = "returned" =>
        \A e \in CallEntries :
            Lower(e[1]) \notin FixedNames =>
                /\ e[2].tag = "str" =>
                     /\ e[1] \in DOMAIN ret.fields
                     /\ ret.fields[e[1]] = [value |-> e[2].s, visible |-> "False"]
                /\ e[2].tag \in {"int", "bool"} => e[1] \notin DOMAIN ret.fields

C6_Witness ==
    /\ pc = "returned"
    /\ <<"Manufacturer", JStr("Murata")>> \in CallEntries
    /\ ret.fields["Manufacturer"] = [value |-> "Murata", visible |-> "False"]
    /\ gen > 0

\* C7: a free-named extra field holding a mapping with a value key is
\* exported with the string form of the mapping's value ("" for None) and
\* with to_bool_str of the mapping's visible, False when it has none.
C7_MappingExported ==
    pc = "returned" =>
        \A e \in CallEntries :
            (/\ Lower(e[1]) \notin FixedNames
             /\ e[2].tag = "dict"
             /\ "value" \in DOMAIN e[2].items)
            => /\ e[1] \in DOMAIN ret.fields
               /\ ret.fields[e[1]].value =
                    (IF e[2].items["value"].tag = "none" THEN ""
                     ELSE Str(e[2].items["value"]))
               /\ ret.fields[e[1]].visible =
                    (IF "visible" \in DOMAIN e[2].items
                     THEN to_bool_str(e[2].items["visible"])
                     ELSE to_bool_str(JBool(FALSE)))

C7_Witness ==
    /\ pc = "returned"
    /\ <<"Manufacturer", JDict([value |-> JNone, visible |-> JStr("YES")])>>
         \in CallEntries
    /\ <<"Voltage", JDict([value |-> JStr("16V"), visible |-> JBool(TRUE)])>>
         \in CallEntries
    /\ ret.fields["Manufacturer"] = [value |-> "", visible |-> "True"]
    /\ ret.fields["Voltage"] = [value |-> "16V", visible |-> "True"]

\* a value that is neither a bare scalar nor a mapping with a value key
Malformed(v) ==
    \/ v.tag \in {"none", "list"}
    \/ v.tag = "dict" /\ "value" \notin DOMAIN v.items

\* C8: the export never raises: it returns a complete envelope whatever the
\* extra fields hold, and an entry that is neither a scalar nor a mapping
\* with a value key adds no key to the fields map.
C8_NeverRaises ==
    /\ pc # "raised"
    /\ pc = "returned" =>
        /\ DOMAIN ret = {"id", "name", "symbolIdStr", "exclude_from_bom",
                         "exclude_from_board", "exclude_from_sim", "fields"}
        /\ FixedNames \subseteq DOMAIN ret.fields
        /\ \A e \in CallEntries :
              Malformed(e[2]) =>
                  /\ e[1] \notin FixedNames => e[1] \notin DOMAIN ret.fields
                  /\ e[1] \in FixedNames => ret.fields[e[1]] = CatalogEntry(e[1])

C8_Witness ==
    /\ pc = "returned"
    /\ <<"Manufacturer", JDict([visible |-> JBool(TRUE)])>> \in CallEntries
    /\ Len(ExtraItems(part)) = 2
    /\ "Manufacturer" \notin DOMAIN ret.fields

\* C9: the envelope's id is the sequence number as a string, its name the
\* record's name or, when that is empty, the id, its symbolIdStr the
\* record's symbol reference, and its flags to_bool_str of the record's.
C9_Envelope ==
    pc = "returned" =>
        /\ ret.id = (CASE part.sequence_number.n = 1 -> "1"
                       [] part.sequence_number.n = 12 -> "12"
                       [] OTHER -> IntStr(part.sequence_number.n))
        /\ ret.name = (IF part.name.s = "" THEN ret.id ELSE part.name.s)
        /\ ret.symbolIdStr = part.symbol_id.s
        /\ ret.exclude_from_bom = to_bool_str(part.exclude_from_bom)
        /\ ret.exclude_from_board = to_bool_str(part.exclude_from_board)
        /\ ret.exclude_from_sim = to_bool_str(part.exclude_from_sim)
        /\ ret.exclude_from_bom = (IF part.exclude_from_bom.b THEN "True" ELSE "False")

C9_Witness ==
    /\ pc = "returned"
    /\ part.name.s = ""
    /\ part.sequence_number.n = 12
    /\ ret.name = "12"
    /\ ret.exclude_from_bom = "True"

-----------------------------------------------------------------------------
(* Properties of the endpoints                                             *)

\* a request has been answered
Answered == resp # NoResp

\* whether the identifier of the answered request resolves to a record: a
\* number that is the sequence number of a part, or the id of a category
Resolves ==
    /\ resp.id \in DOMAIN IntOf
    /\ IF resp.endpoint = "part_detail"
       THEN \E p \in store.parts : p.sequence_number = JInt(IntOf[resp.id])
       ELSE IntOf[resp.id] \in store.categories

\* the most names FIXED_FIELD_NAMES can have yielded
GenStates == 0..Len(FIXED_FIELDS)

\* C13: an identifier that does not resolve to a record (no such part, no
\* such category, not a number) is answered with a 404 that carries no
\* payload; an identifier that resolves to a part is answered with that
\* part's exported field map.
C13_UnknownIs404 ==
    Answered =>
        /\ ~Resolves =>
              /\ resp.status = 404
              /\ DOMAIN resp.body = {"detail"}
        /\ (Resolves /\ resp.endpoint = "part_detail") =>
              /\ resp.status = 200
              /\ \E p \in store.parts, g \in GenStates :
                    /\ p.sequence_number = JInt(IntOf[resp.id])
                    /\ resp.body = part_to_kicad_fields(p, g).ret

\* the listing the claim states for a category: its active parts by name,
\* every member a string
StatedListing(cat) ==
    LET rows == OrderByName({p \in store.parts :
                                p.category_id = JInt(cat) /\ p.is_active = JBool(TRUE)})
    IN  [i \in 1..Len(rows) |->
            [id |-> JStr(Str(rows[i].sequence_number)),
             name |-> IF rows[i].name = JStr("")
                      THEN JStr(Str(rows[i].sequence_number)) ELSE rows[i].name,
             description |-> IF rows[i].description = JNone
                             THEN JStr("") ELSE rows[i].description]]

\* C14: parts_for_category returns exactly the active parts of the category,
\* ordered by name, each with string id, name and description; the name is the
\* id's string form when the part has no name and the description is empty
\* when the part has none.
C14_ActiveListing ==
    (Answered /\ resp.endpoint = "parts_for_category" /\ resp.id \in DOMAIN IntOf) =>
        /\ resp.status = 200
        /\ resp.body = StatedListing(IntOf[resp.id])

-----------------------------------------------------------------------------
(* Properties of the guard trigger                                         *)

\* the guard trigger is installed on parts
TriggerInstalled == schema.triggers # <<>>

\* init_db has installed the trigger, once or again: parts has exactly the
\* one trigger, and the call that installs it does not fail
OneTrigger ==
    /\ Len(schema.triggers) <= 1
    /\ schema.function => schema.triggers = <<TriggerName>>
    /\ (sql.op = "init_db" /\ sql.install_triggers) =>
          (sql.exc = "" /\ schema.triggers = <<TriggerName>>)

\* the outcome of the last update when the trigger was installed: one that
\* gives the row another name is rejected and the row is as it was, one that
\* keeps the name succeeds and the row has updated_at at the time of the update
GuardedUpdate ==
    (sql.op = "update" /\ sql.guarded) =>
        IF sql.set.name # sql.old.name
        THEN sql.exc # "" /\ sql.old \in store.parts
        ELSE sql.exc = "" /\ [sql.set EXCEPT !.updated_at = JInt(sql.at)] \in store.parts

\* under the trigger no step gives a row another name
NameKept ==
    TriggerInstalled =>
        \A p \in store.parts :
            \E q \in store'.parts :
                q.sequence_number = p.sequence_number /\ q.name = p.name

\* C23: once init_db has installed the guard trigger, no update changes the
\* name of a row of parts: an update that changes the name is rejected and
\* leaves the row unchanged, an update that keeps the name succeeds and sets
\* updated_at to the current time, and running init_db again leaves exactly one
\* trigger installed.
C23_NameImmutable ==
    /\ [](OneTrigger /\ GuardedUpdate)
    /\ [][NameKept]_vars

\* an update that changes a name has been rejected under the trigger, while
\* a row of the table has been touched by an earlier update
C23_Witness ==
    /\ sql.op = "update"
    /\ sql.guarded
    /\ sql.exc = "RaiseException"
    /\ \E p \in store.parts : p.updated_at # p.created_at

====
